---- MODULE Spec2Model ----
(***************************************************************************)
(* A model of mongodump's execution core (package mongodump):              *)
(*   - DumpIntents: the worker pool draining the intent manager            *)
(*     (specification SpecIntents);                                        *)
(*   - dumpIterToWriter: the reader goroutine / buffered writer pipeline   *)
(*     (specification SpecPipe);                                           *)
(*   - Dump: the sequential coordinator and its oplog protocol             *)
(*     (specification SpecDump).                                           *)
(* The three components share one set of variables; each specification     *)
(* moves the variables of its component and leaves the others at their     *)
(* initial values.                                                         *)
(***************************************************************************)
EXTENDS Integers, Sequences, FiniteSets, TLC

\* ------------------------------------------------------------------ bounds
\* largest parallelism hint (ToolOptions.HiddenOptions.MaxProcs) explored
MaxJobs == 2
\* largest number of intents in the manager's working set
NumIntents == 2
\* largest estimated size (Intent.Size) of an intent
MaxSize == 2
\* largest number of documents the source cursor of a pipeline holds
MaxDocs == 4
\* capacity of the bufio.Writer, in documents (the code's is 32*1024 bytes)
BufCap == 2
\* largest number of databases with a system.indexes intent
MaxSysIdx == 1
\* capacity of the oplog (a capped collection), in entries
OplogCap == 2
\* largest timestamp the source issues during a run
MaxTs == 4
\* the most collections a database has
MaxCols == 2
\* the most excluded names, and the most excluded prefixes
MaxExcl == 1

VARIABLES
    \* ---- DumpIntents (mongodump.go 309-354) and the intent manager
    maxProcs,      \* ToolOptions.HiddenOptions.MaxProcs; 0 when unset
    sizes,         \* Intent.Size of every intent of the working set
    workingSet,    \* the manager's working set, in Put (discovery) order
    queue,         \* the manager's queue once Finalize fixed the order
    policy,        \* the policy Finalize was called with, "none" before
    jobs,          \* local variable jobs of DumpIntents
    diPc,          \* where DumpIntents is: "start", "spawn", "wait", "returned"
    spawned,       \* goroutines started so far (loop counter of line 326)
    received,      \* nil results received so far (loop counter of line 347)
    diErr,         \* the value DumpIntents returned: 0 is nil, i the error of intent i
    wpc,           \* per worker: "idle", "pop", "dump", "finish", "send", "done"
    wIntent,       \* per worker: the intent it holds (0: none)
    wSend,         \* per worker: the value it is sending on resultChan
    popLog,        \* the intents Pop returned, in the order the Pops took effect
    copyResult,    \* per intent: "none", "ok" or "err", the outcome of DumpIntent
    finishLog,     \* the intents Finish was called on, in order
    recvLog,       \* the values DumpIntents received from resultChan, in order
    finalizeCalls, \* how many times DumpIntents called manager.Finalize
    poppedBy,      \* per intent: the worker whose Pop returned it (0: none)
    finishedBy,    \* per intent: the worker that called Finish on it (0: none)
    \* ---- dumpIterToWriter (mongodump.go 444-494)
    iterSrc,       \* the documents the source cursor holds, in cursor order
    iterPos,       \* how many documents iter.Next has returned
    iterErr,       \* iter.Err() # nil
    rpc,           \* the reader goroutine: "next", "send", "exit"
    nextCopy,      \* the reader's copy of the document it hands off (0: none)
    chanClosed,    \* buffChan is closed
    mpc,           \* the write loop: "recv", "write", "flush", "returned"
    buff,          \* the document the write loop received (0: none)
    wbuf,          \* the documents buffered in the bufio.Writer
    dest,          \* the documents written to the destination io.Writer
    flushCalls,    \* how many times w.Flush() was called
    progressCount, \* the progress counter
    pRet,          \* the result: "none", "ok", "readErr", "writeErr", "flushErr"
    \* ---- Dump (mongodump.go 110-305) and the oplog (oplog_dump.go)
    oplogOpt,      \* OutputOptions.Oplog
    toolDB,        \* ToolOptions.DB: "" (all), "admin" or "db"
    dbUsersRoles,  \* OutputOptions.DumpDBUsersAndRoles
    sysIndexDBs,   \* how many databases manager.SystemIndexDBs() lists
    authIntents,   \* which of manager.Users(), Roles(), AuthVersion() exist
    dpc,           \* where Dump is
    dRet,          \* the result of Dump: "none", "ok" or the error
    steps,         \* the steps Dump made so far: [name, ok]
    oplog,         \* the timestamps of the entries in the source's oplog
    clock,         \* the timestamp of the last write the source made
    oplogCollection, \* dump.oplogCollection ("" before it is determined)
    oplogStart,    \* dump.oplogStart
    oplogOut,      \* the timestamps written to the oplog destination
    cursorLast,    \* the oplog cursor: the last timestamp it returned
    clockAtEnd,    \* the source's clock when the oplog cursor was exhausted
    masterDoc,     \* the isMaster response of the last determineOplogCollectionName
    oldestRead,    \* the last read of the oldest oplog entry by an overflow
                   \* check: "none", "error" or "entry"
    repairMode,    \* OutputOptions.Repair, as Dump reads it
    managerIntents, \* how many intents the manager's working set holds
    intentsPut,    \* how many intents the creation Put into the manager
    probe,         \* the capability probe of lines 178-192: "none" before,
                   \* "repair off", "no intent", "supported",
                   \* "unsupported, error" or "unsupported, nil"
    \* ---- DumpIntent (mongodump.go 357-416) and dumpQueryToWriter (420-440)
    repairOpt,     \* OutputOptions.Repair
    useStdout,     \* dump.useStdout
    queryOpt,      \* "query": len(dump.query) > 0, "tableScan", or "none"
    sysIdx,        \* intent.IsSystemIndexes()
    cpc,           \* where DumpIntent is: "idle", "session", "open", "query",
                   \* "count", "copy", "returned"
    cRet,          \* what DumpIntent returned: "none", "nil" or "err"
    exitPath,      \* the return statement DumpIntent left by
    sessionOpen,   \* the session of line 358 is open
    fileOpen,      \* intent.BSONFile is open
    openCalls,     \* successful intent.BSONFile.Open() calls
    closeCalls,    \* intent.BSONFile.Close() calls
    findQuery,     \* the query of lines 375-385: "none" before
    countCalls,    \* query.Count() calls (line 423)
    cursorKind,    \* the cursor copied from: "none", "query" or "repair"
    \* ---- CreateIntentsForDatabase (part_000 162-182)
    cols,          \* the collection names of the database, as enumerated
    excludedCollections,         \* OutputOptions.ExcludedCollections
    excludedCollectionPrefixes,  \* OutputOptions.ExcludedCollectionPrefixes
    kpc,           \* where CreateIntentsForDatabase is: "idle", "start",
                   \* "loop", "returned"
    colIdx,        \* how many names of cols the loop of line 176 has done
    created,       \* the names of the intents Put into the manager, in order
    kRet           \* what it returned: "none", "nil" or "err"

iVars == <<maxProcs, sizes, workingSet, queue, policy, jobs, diPc, spawned,
           received, diErr, wpc, wIntent, wSend, popLog, copyResult,
           finishLog, recvLog, finalizeCalls, poppedBy, finishedBy>>

pVars == <<iterSrc, iterPos, iterErr, rpc, nextCopy, chanClosed, mpc, buff,
           wbuf, dest, flushCalls, progressCount, pRet>>

dVars == <<oplogOpt, toolDB, dbUsersRoles, sysIndexDBs, authIntents, dpc, dRet,
           steps, oplog, clock, oplogCollection, oplogStart, oplogOut,
           cursorLast, clockAtEnd, masterDoc, oldestRead, repairMode,
           managerIntents, intentsPut, probe>>

cVars == <<repairOpt, useStdout, queryOpt, sysIdx, cpc, cRet, exitPath,
           sessionOpen, fileOpen, openCalls, closeCalls, findQuery,
           countCalls, cursorKind>>

kVars == <<cols, excludedCollections, excludedCollectionPrefixes, kpc,
           colIdx, created, kRet>>

vars == <<iVars, pVars, dVars, cVars, kVars>>

\* ------------------------------------------------------------- helpers
Range(s) == {s[i] : i \in 1..Len(s)}

\* util.MaxInt
MaxInt(a, b) == IF a > b THEN a ELSE b

\* the sequences that hold every element of S exactly once
RECURSIVE Perms(_)
Perms(S) ==
    IF S = {} THEN {<<>>}
    ELSE UNION {{<<x>> \o p : p \in Perms(S \ {x})} : x \in S}

\* the sequences <<1, ..., n>>
Iota(n) == [i \in 1..n |-> i]

Workers == 1..(MaxJobs)

\* ----------------------------------------------- the intent manager
\* the working set sorted by ascending Size
ShortestTaskFirstOrders(ws, sz) ==
    {q \in Perms(Range(ws)) :
        \A i \in 1..(Len(q) - 1) : sz[q[i]] <= sz[q[i + 1]]}

\* intents.Manager.Finalize(LongestTaskFirst): the working set sorted by
\* descending Size; an unstable sort, so ties come in any order.
LongestTaskFirstOrders(ws, sz) ==
    {q \in Perms(Range(ws)) :
        \A i \in 1..(Len(q) - 1) : sz[q[i]] >= sz[q[i + 1]]}

\* intents.Manager.Finalize(Legacy): discovery order.
LegacyOrders(ws) == {ws}

\* ------------------------------------------------------- DumpIntents
InitIntents ==
    /\ maxProcs \in 0..MaxJobs
    /\ \E n \in 0..NumIntents :
        /\ workingSet = Iota(n)
        /\ sizes \in [1..n -> 1..MaxSize]
        /\ copyResult = [i \in 1..n |-> "none"]
        /\ poppedBy = [i \in 1..n |-> 0]
        /\ finishedBy = [i \in 1..n |-> 0]
    /\ queue = <<>>
    /\ policy = "none"
    /\ jobs = 0
    /\ diPc = "start"
    /\ spawned = 0
    /\ received = 0
    /\ diErr = 0
    /\ wpc = [w \in Workers |-> "idle"]
    /\ wIntent = [w \in Workers |-> 0]
    /\ wSend = [w \in Workers |-> 0]
    /\ popLog = <<>>
    /\ finishLog = <<>>
    /\ recvLog = <<>>
    /\ finalizeCalls = 0

\* DumpIntents not running: the state the other specifications keep
IdleIntents ==
    /\ maxProcs = 0
    /\ workingSet = <<>>
    /\ sizes = <<>>
    /\ copyResult = <<>>
    /\ poppedBy = <<>>
    /\ finishedBy = <<>>
    /\ queue = <<>>
    /\ policy = "none"
    /\ jobs = 0
    /\ diPc = "idle"
    /\ spawned = 0
    /\ received = 0
    /\ diErr = 0
    /\ wpc = [w \in Workers |-> "idle"]
    /\ wIntent = [w \in Workers |-> 0]
    /\ wSend = [w \in Workers |-> 0]
    /\ popLog = <<>>
    /\ finishLog = <<>>
    /\ recvLog = <<>>
    /\ finalizeCalls = 0

\* the two policies exchanged
DumpIntentsFinalizeSwapped ==
    /\ diPc = "start"
    /\ jobs' = MaxInt(maxProcs, 1)
    /\ IF jobs' > 1
         THEN /\ policy' = "Legacy"
              /\ queue' \in LegacyOrders(workingSet)
         ELSE /\ policy' = "LongestTaskFirst"
              /\ queue' \in LongestTaskFirstOrders(workingSet, sizes)
    /\ finalizeCalls' = finalizeCalls + 1
    /\ diPc' = "spawn"
    /\ UNCHANGED <<maxProcs, sizes, workingSet, spawned, received, diErr, wpc,
                   poppedBy, finishedBy,
                   wIntent, wSend, popLog, copyResult, finishLog, recvLog>>

\* lines 312-321: jobs = MaxInt(MaxProcs, 1); Finalize(policy)
DumpIntentsFinalize ==
    /\ diPc = "start"
    /\ jobs' = MaxInt(maxProcs, 1)
    /\ IF jobs' > 1
         THEN /\ policy' = "LongestTaskFirst"
              /\ queue' \in LongestTaskFirstOrders(workingSet, sizes)
         ELSE /\ policy' = "Legacy"
              /\ queue' \in LegacyOrders(workingSet)
    /\ finalizeCalls' = finalizeCalls + 1
    /\ diPc' = "spawn"
    /\ UNCHANGED <<maxProcs, sizes, workingSet, spawned, received, diErr, wpc,
                   poppedBy, finishedBy,
                   wIntent, wSend, popLog, copyResult, finishLog, recvLog>>

\* lines 326-344: go func(id) for the next worker; the started goroutine
\* runs concurrently with the rest of the loop.
SpawnWorker ==
    /\ diPc = "spawn"
    /\ spawned < jobs
    /\ spawned' = spawned + 1
    /\ wpc' = [wpc EXCEPT ![spawned + 1] = "pop"]
    /\ diPc' = IF spawned' = jobs THEN "wait" ELSE "spawn"
    /\ UNCHANGED <<poppedBy, finishedBy, finalizeCalls, maxProcs, sizes, workingSet, queue, policy, jobs, received,
                   diErr, wIntent, wSend, popLog, copyResult, finishLog,
                   recvLog>>

\* lines 330-335: intent := dump.manager.Pop(); nil ends the worker with a
\* nil result. Pop removes and returns the head of the queue atomically.
WorkerPop(w) ==
    /\ wpc[w] = "pop"
    /\ IF queue = <<>>
         THEN /\ wpc' = [wpc EXCEPT ![w] = "send"]
              /\ wSend' = [wSend EXCEPT ![w] = 0]
              /\ wIntent' = [wIntent EXCEPT ![w] = 0]
              /\ UNCHANGED <<queue, popLog, poppedBy>>
         ELSE /\ wIntent' = [wIntent EXCEPT ![w] = Head(queue)]
              /\ queue' = Tail(queue)
              /\ popLog' = Append(popLog, Head(queue))
              /\ poppedBy' = [poppedBy EXCEPT ![Head(queue)] = w]
              /\ wpc' = [wpc EXCEPT ![w] = "dump"]
              /\ UNCHANGED wSend
    /\ UNCHANGED <<finishedBy, finalizeCalls, maxProcs, sizes, workingSet, policy, jobs, diPc, spawned,
                   received, diErr, copyResult, finishLog, recvLog>>

\* the swallowed error: a failed copy reported as success
WorkerDumpIntentSwallow(w) ==
    /\ wpc[w] = "dump"
    /\ \E ok \in BOOLEAN :
        /\ copyResult' = [copyResult EXCEPT ![wIntent[w]] =
                              IF ok THEN "ok" ELSE "err"]
        /\ IF ok
             THEN /\ wpc' = [wpc EXCEPT ![w] = "finish"]
                  /\ UNCHANGED wSend
             ELSE /\ wpc' = [wpc EXCEPT ![w] = "send"]
                  /\ wSend' = [wSend EXCEPT ![w] = 0]
    /\ UNCHANGED <<poppedBy, finishedBy, finalizeCalls, maxProcs, sizes, workingSet, queue, policy, jobs, diPc,
                   spawned, received, diErr, wIntent, popLog, finishLog,
                   recvLog>>

\* lines 336-340: err := dump.DumpIntent(intent); an error is the worker's
\* result. The error of intent i is the value i.
WorkerDumpIntent(w) ==
    /\ wpc[w] = "dump"
    /\ \E ok \in BOOLEAN :
        /\ copyResult' = [copyResult EXCEPT ![wIntent[w]] =
                              IF ok THEN "ok" ELSE "err"]
        /\ IF ok
             THEN /\ wpc' = [wpc EXCEPT ![w] = "finish"]
                  /\ UNCHANGED wSend
             ELSE /\ wpc' = [wpc EXCEPT ![w] = "send"]
                  /\ wSend' = [wSend EXCEPT ![w] = wIntent[w]]
    /\ UNCHANGED <<poppedBy, finishedBy, finalizeCalls, maxProcs, sizes, workingSet, queue, policy, jobs, diPc,
                   spawned, received, diErr, wIntent, popLog, finishLog,
                   recvLog>>

\* Finish left out: the loop pops again at once
WorkerFinishSkipped(w) ==
    /\ wpc[w] = "finish"
    /\ wpc' = [wpc EXCEPT ![w] = "pop"]
    /\ UNCHANGED <<poppedBy, finishedBy, finalizeCalls, maxProcs, sizes,
                   workingSet, queue, policy, jobs, diPc, spawned, received,
                   diErr, wIntent, wSend, popLog, copyResult, finishLog,
                   recvLog>>

\* line 341: dump.manager.Finish(intent), then the loop pops again
WorkerFinish(w) ==
    /\ wpc[w] = "finish"
    /\ finishLog' = Append(finishLog, wIntent[w])
    /\ finishedBy' = [finishedBy EXCEPT ![wIntent[w]] = w]
    /\ wpc' = [wpc EXCEPT ![w] = "pop"]
    /\ UNCHANGED <<poppedBy, finalizeCalls, maxProcs, sizes, workingSet,
                   queue, policy, jobs, diPc, spawned, received, diErr,
                   wIntent, wSend, popLog, copyResult, recvLog>>

\* the error ignored: every result is counted and nil is returned
ReceiveResultIgnoreErr(w) ==
    /\ diPc = "wait"
    /\ wpc[w] = "send"
    /\ recvLog' = Append(recvLog, wSend[w])
    /\ wpc' = [wpc EXCEPT ![w] = "done"]
    /\ received' = received + 1
    /\ diPc' = IF received' = jobs THEN "returned" ELSE "wait"
    /\ diErr' = 0
    /\ UNCHANGED <<poppedBy, finishedBy, finalizeCalls, maxProcs, sizes, workingSet, queue, policy, jobs, spawned,
                   wIntent, wSend, popLog, copyResult, finishLog>>

\* lines 333/338 and 347-353: resultChan is unbuffered, so a worker's send
\* and the receive of the waiting loop are one step. A non-nil value makes
\* DumpIntents return it at once; the jobs-th nil makes it return nil.
ReceiveResult(w) ==
    /\ diPc = "wait"
    /\ wpc[w] = "send"
    /\ recvLog' = Append(recvLog, wSend[w])
    /\ wpc' = [wpc EXCEPT ![w] = "done"]
    /\ IF wSend[w] # 0
         THEN /\ diPc' = "returned"
              /\ diErr' = wSend[w]
              /\ UNCHANGED received
         ELSE /\ received' = received + 1
              /\ diPc' = IF received' = jobs THEN "returned" ELSE "wait"
              /\ diErr' = 0
    /\ UNCHANGED <<poppedBy, finishedBy, finalizeCalls, maxProcs, sizes, workingSet, queue, policy, jobs, spawned,
                   wIntent, wSend, popLog, copyResult, finishLog>>

NextIntents ==
    /\ \/ DumpIntentsFinalize
       \/ SpawnWorker
       \/ \E w \in Workers : WorkerPop(w)
       \/ \E w \in Workers : WorkerDumpIntent(w)
       \/ \E w \in Workers : WorkerFinish(w)
       \/ \E w \in Workers : ReceiveResult(w)
    /\ UNCHANGED <<pVars, dVars, cVars, kVars>>

\* -------------------------------------------------- dumpIterToWriter
\* the state when dumpIterToWriter is entered: the channel is made, the
\* reader goroutine is started, the bufio.Writer is empty (lines 450-469)
InitPipe ==
    /\ \E n \in 0..MaxDocs : iterSrc = Iota(n)
    /\ iterPos = 0
    /\ iterErr = FALSE
    /\ rpc = "next"
    /\ nextCopy = 0
    /\ chanClosed = FALSE
    /\ mpc = "recv"
    /\ buff = 0
    /\ wbuf = <<>>
    /\ dest = <<>>
    /\ flushCalls = 0
    /\ progressCount = 0
    /\ pRet = "none"

\* no pipeline running: the state the other specifications keep
IdlePipe ==
    /\ iterSrc = <<>>
    /\ iterPos = 0
    /\ iterErr = FALSE
    /\ rpc = "idle"
    /\ nextCopy = 0
    /\ chanClosed = FALSE
    /\ mpc = "idle"
    /\ buff = 0
    /\ wbuf = <<>>
    /\ dest = <<>>
    /\ flushCalls = 0
    /\ progressCount = 0
    /\ pRet = "none"

\* the reader not held back by the handoff: it fetches the next document
\* while its previous one is not yet received
ReaderNextNoBlock ==
    /\ rpc \in {"next", "send"}
    /\ \/ /\ iterPos < Len(iterSrc)
          /\ iterPos' = iterPos + 1
          /\ nextCopy' = iterSrc[iterPos + 1]
          /\ rpc' = "send"
          /\ UNCHANGED <<iterErr, chanClosed>>
       \/ /\ rpc = "next"
          /\ iterPos = Len(iterSrc)
          /\ chanClosed' = TRUE
          /\ rpc' = "exit"
          /\ UNCHANGED <<iterPos, iterErr, nextCopy>>
    /\ UNCHANGED <<iterSrc, mpc, buff, wbuf, dest, flushCalls, progressCount,
                   pRet>>

\* lines 453-462: next := iter.Next(raw). The cursor hands out its next
\* document, which the reader copies, or stops: at the end of the data, or
\* at any point with an error (iter.Err() is then set). On a stop the
\* reader closes buffChan and returns.
ReaderNext ==
    /\ rpc = "next"
    /\ \/ /\ iterPos < Len(iterSrc)
          /\ iterPos' = iterPos + 1
          /\ nextCopy' = iterSrc[iterPos + 1]
          /\ rpc' = "send"
          /\ UNCHANGED <<iterErr, chanClosed>>
       \/ /\ iterPos = Len(iterSrc)
          /\ chanClosed' = TRUE
          /\ rpc' = "exit"
          /\ UNCHANGED <<iterPos, iterErr, nextCopy>>
       \/ /\ iterErr' = TRUE
          /\ chanClosed' = TRUE
          /\ rpc' = "exit"
          /\ UNCHANGED <<iterPos, nextCopy>>
    /\ UNCHANGED <<iterSrc, mpc, buff, wbuf, dest, flushCalls, progressCount,
                   pRet>>

\* lines 464 and 474: buffChan is unbuffered, so the reader's send and the
\* write loop's receive are one step.
Handoff ==
    /\ rpc = "send"
    /\ mpc = "recv"
    /\ buff' = nextCopy
    /\ nextCopy' = 0
    /\ rpc' = "next"
    /\ mpc' = "write"
    /\ UNCHANGED <<iterSrc, iterPos, iterErr, chanClosed, wbuf, dest,
                   flushCalls, progressCount, pRet>>

\* the cursor error not looked at
RecvClosedNoErrCheck ==
    /\ mpc = "recv"
    /\ chanClosed
    /\ mpc' = "flush"
    /\ UNCHANGED pRet
    /\ UNCHANGED <<iterSrc, iterPos, iterErr, rpc, nextCopy, chanClosed, buff,
                   wbuf, dest, flushCalls, progressCount>>

\* lines 474-480: the receive on the closed channel (alive is false): a
\* cursor error is returned at once, otherwise the loop is left.
RecvClosed ==
    /\ mpc = "recv"
    /\ chanClosed
    /\ IF iterErr
         THEN /\ pRet' = "readErr"
              /\ mpc' = "returned"
         ELSE /\ mpc' = "flush"
              /\ UNCHANGED pRet
    /\ UNCHANGED <<iterSrc, iterPos, iterErr, rpc, nextCopy, chanClosed, buff,
                   wbuf, dest, flushCalls, progressCount>>

\* bufio.Writer.Flush on the buffered documents b: the destination takes
\* them all, or fails having taken the first k of them.
FlushOutcomes(b) ==
    {[ok |-> TRUE, taken |-> Len(b)]} \cup
    {[ok |-> FALSE, taken |-> k] : k \in 0..(Len(b) - 1)} \cup
    (IF b = <<>> THEN {} ELSE {[ok |-> FALSE, taken |-> Len(b)]})

\* the counter incremented before the write, so also when it fails
WriteDocCountsFailed ==
    /\ mpc = "write"
    /\ progressCount' = progressCount + 1
    /\ IF Len(wbuf) + 1 > BufCap
         THEN \E o \in FlushOutcomes(wbuf) :
                /\ dest' = dest \o SubSeq(wbuf, 1, o.taken)
                /\ IF o.ok
                     THEN /\ wbuf' = <<buff>>
                          /\ mpc' = "recv"
                          /\ UNCHANGED pRet
                     ELSE /\ wbuf' = SubSeq(wbuf, o.taken + 1, Len(wbuf))
                          /\ pRet' = "writeErr"
                          /\ mpc' = "returned"
         ELSE /\ wbuf' = Append(wbuf, buff)
              /\ mpc' = "recv"
              /\ UNCHANGED <<dest, pRet>>
    /\ buff' = 0
    /\ UNCHANGED <<iterSrc, iterPos, iterErr, rpc, nextCopy, chanClosed,
                   flushCalls>>

\* lines 481-485: w.Write(buff) then progressCount.Inc(1). The
\* bufio.Writer buffers the document; when the buffer has no room it is
\* first written out to the destination, which may fail.
WriteDoc ==
    /\ mpc = "write"
    /\ IF Len(wbuf) + 1 > BufCap
         THEN \E o \in FlushOutcomes(wbuf) :
                /\ dest' = dest \o SubSeq(wbuf, 1, o.taken)
                /\ IF o.ok
                     THEN /\ wbuf' = <<buff>>
                          /\ progressCount' = progressCount + 1
                          /\ mpc' = "recv"
                          /\ UNCHANGED pRet
                     ELSE /\ wbuf' = SubSeq(wbuf, o.taken + 1, Len(wbuf))
                          /\ pRet' = "writeErr"
                          /\ mpc' = "returned"
                          /\ UNCHANGED progressCount
         ELSE /\ wbuf' = Append(wbuf, buff)
              /\ progressCount' = progressCount + 1
              /\ mpc' = "recv"
              /\ UNCHANGED <<dest, pRet>>
    /\ buff' = 0
    /\ UNCHANGED <<iterSrc, iterPos, iterErr, rpc, nextCopy, chanClosed,
                   flushCalls>>

\* the final flush left out
FlushAndReturnNoFlush ==
    /\ mpc = "flush"
    /\ pRet' = "ok"
    /\ mpc' = "returned"
    /\ UNCHANGED <<iterSrc, iterPos, iterErr, rpc, nextCopy, chanClosed, buff,
                   wbuf, dest, flushCalls, progressCount>>

\* lines 489-493: err := w.Flush(); its error or nil is the result
FlushAndReturn ==
    /\ mpc = "flush"
    /\ flushCalls' = flushCalls + 1
    /\ \E o \in FlushOutcomes(wbuf) :
        /\ dest' = dest \o SubSeq(wbuf, 1, o.taken)
        /\ wbuf' = SubSeq(wbuf, o.taken + 1, Len(wbuf))
        /\ pRet' = IF o.ok THEN "ok" ELSE "flushErr"
    /\ mpc' = "returned"
    /\ UNCHANGED <<iterSrc, iterPos, iterErr, rpc, nextCopy, chanClosed, buff,
                   progressCount>>

NextPipe ==
    /\ \/ ReaderNext
       \/ Handoff
       \/ RecvClosed
       \/ WriteDoc
       \/ FlushAndReturn
    /\ UNCHANGED <<iVars, dVars, cVars, kVars>>

\* ------------------------------------------------ the oplog protocol
Last(q) == q[Len(q)]

\* the answers of the isMaster command (oplog_dump.go 16-17): the command
\* fails, or its document has a hosts field or not, and an ismaster field
\* that is true, false or absent
ProbeResponses ==
    [cmdErr : BOOLEAN, hosts : BOOLEAN, ismaster : {"true", "false", "absent"}]

\* masterDoc before any isMaster command was run
NoResponse == [cmdErr |-> FALSE, hosts |-> FALSE, ismaster |-> "unasked"]

\* util.IsFalsy on masterDoc["ismaster"]
IsFalsy(v) == v \in {"false", "absent"}

\* the primary flag tested before the member hosts
determineOplogCollectionNameFlagFirst(resp, cur) ==
    IF resp.cmdErr THEN [err |-> TRUE, coll |-> cur]
    ELSE IF IsFalsy(resp.ismaster) THEN [err |-> TRUE, coll |-> cur]
    ELSE IF resp.hosts THEN [err |-> FALSE, coll |-> "oplog.rs"]
    ELSE [err |-> FALSE, coll |-> "oplog.$main"]

\* determineOplogCollectionName on the response resp: whether it fails, and
\* the value it leaves in dump.oplogCollection given the value cur before
determineOplogCollectionName(resp, cur) ==
    IF resp.cmdErr THEN [err |-> TRUE, coll |-> cur]
    ELSE IF resp.hosts THEN [err |-> FALSE, coll |-> "oplog.rs"]
    ELSE IF IsFalsy(resp.ismaster) THEN [err |-> TRUE, coll |-> cur]
    ELSE [err |-> FALSE, coll |-> "oplog.$main"]

\* getOplogStartTime: FindOne sorted by -$natural fails (always so on an
\* empty oplog) or yields the timestamp of the most recent entry
getOplogStartTime(log) ==
    {[err |-> TRUE, ts |-> 0]} \cup
    (IF log = <<>> THEN {} ELSE {[err |-> FALSE, ts |-> Last(log)]})

\* the comparison inverted
checkOplogTimestampExistsInverted(log, ts) ==
    {[exists |-> FALSE, err |-> TRUE]} \cup
    (IF log = <<>> THEN {} ELSE {[exists |-> ~(Head(log) < ts), err |-> FALSE]})

\* checkOplogTimestampExists(ts): FindOne sorted by +$natural fails, giving
\* (false, err), or yields the oldest entry, giving (false, nil) when its
\* timestamp is greater than ts and (true, nil) otherwise
checkOplogTimestampExists(log, ts) ==
    {[exists |-> FALSE, err |-> TRUE]} \cup
    (IF log = <<>> THEN {} ELSE {[exists |-> ~(Head(log) > ts), err |-> FALSE]})

\* the filter including the captured entry
OplogQueryMatchesGte(e, ts) == e >= ts

\* the filter of DumpOplogAfterTimestamp: {"ts": {"$gt": ts}}
OplogQueryMatches(e, ts) == e > ts

\* what the oplog cursor still has to return: the entries matching the
\* query that lie after the last one it returned, in natural order
CursorRest(log, ts, last) ==
    SelectSeq(log, LAMBDA e : OplogQueryMatches(e, ts) /\ e > last)

\* the state after Init(): the options passed ValidateOptions (oplog only
\* on full dumps, dumpDbUsersAndRoles only with a database)
InitDump ==
    /\ oplogOpt \in BOOLEAN
    /\ toolDB \in {"", "admin", "db"}
    /\ dbUsersRoles \in BOOLEAN
    /\ oplogOpt => toolDB = ""
    /\ dbUsersRoles => toolDB # ""
    /\ sysIndexDBs \in 0..MaxSysIdx
    /\ authIntents \in SUBSET {"users", "roles", "version"}
    /\ dpc = "create"
    /\ dRet = "none"
    /\ steps = <<>>
    /\ \E n \in 0..OplogCap : oplog = Iota(n) /\ clock = n
    /\ oplogCollection = ""
    /\ oplogStart = 0
    /\ oplogOut = <<>>
    /\ cursorLast = 0
    /\ clockAtEnd = 0
    /\ masterDoc = NoResponse
    /\ oldestRead = "none"
    /\ repairMode \in BOOLEAN
    /\ managerIntents = 0
    /\ intentsPut = 0
    /\ probe = "none"

\* Dump not running: the state the other specifications keep
IdleDump ==
    /\ oplogOpt = FALSE
    /\ toolDB = ""
    /\ dbUsersRoles = FALSE
    /\ sysIndexDBs = 0
    /\ authIntents = {}
    /\ dpc = "idle"
    /\ dRet = "none"
    /\ steps = <<>>
    /\ oplog = <<>>
    /\ clock = 0
    /\ oplogCollection = ""
    /\ oplogStart = 0
    /\ oplogOut = <<>>
    /\ cursorLast = 0
    /\ clockAtEnd = 0
    /\ masterDoc = NoResponse
    /\ oldestRead = "none"
    /\ repairMode = FALSE
    /\ managerIntents = 0
    /\ intentsPut = 0
    /\ probe = "none"

Running == dpc \notin {"idle", "done", "failed"}

Step(name, ok) == [name |-> name, ok |-> ok]

\* n calls in a row of which the f-th fails (f = 0: none fails) and ends
\* the row
Calls(name, n, f) ==
    IF f = 0 THEN [i \in 1..n |-> Step(name, TRUE)]
    ELSE [i \in 1..f |-> Step(name, i < f)]

\* the source writes: a new entry with the next timestamp is appended to
\* the oplog, a capped collection, which drops its oldest entry when full
OplogWrite ==
    /\ Running
    /\ oplogOpt
    /\ clock < MaxTs
    /\ clock' = clock + 1
    /\ oplog' = IF Len(oplog) >= OplogCap
                  THEN Append(Tail(oplog), clock + 1)
                  ELSE Append(oplog, clock + 1)
    /\ UNCHANGED <<repairMode, managerIntents, intentsPut, probe,
                   oldestRead, masterDoc, oplogOpt, toolDB, dbUsersRoles, sysIndexDBs, authIntents,
                   dpc, dRet, steps, oplogCollection, oplogStart, oplogOut,
                   cursorLast, clockAtEnd>>

\* lines 152-176: the intents are created; with --oplog CreateOplogIntents
\* determines the oplog collection for the oplog intent
CreateIntents ==
    /\ dpc = "create"
    /\ \E ok \in BOOLEAN, resp \in ProbeResponses, n \in 0..NumIntents :
        LET d == determineOplogCollectionName(resp, oplogCollection)
            good == ok /\ (oplogOpt => ~d.err)
        IN /\ oplogCollection' = IF ok /\ oplogOpt THEN d.coll ELSE oplogCollection
           /\ masterDoc' = IF ok /\ oplogOpt THEN resp ELSE masterDoc
           /\ managerIntents' = IF good THEN n ELSE 0
           /\ intentsPut' = IF good THEN n ELSE 0
           /\ steps' = Append(steps, Step("CreateIntents", good))
           /\ dpc' = IF good THEN "probe" ELSE "failed"
           /\ dRet' = IF good THEN dRet ELSE "error creating intents"
    /\ UNCHANGED <<repairMode, probe, oldestRead, oplogOpt, toolDB,
                   dbUsersRoles, sysIndexDBs, authIntents,
                   oplog, clock, oplogStart, oplogOut, cursorLast, clockAtEnd>>

\* intents.Manager.Peek on a working set of n intents: a sample intent, or
\* none when the set is empty; the set is left as it is
Peek(n) == [sample |-> n > 0, left |-> n]

\* the answers of sessionProvider.SupportsRepairCursor: (supported, err)
SupportsRepairCursorResults == [supported : BOOLEAN, err : BOOLEAN]

\* lines 178-192: with Repair, the manager's sample intent is probed for
\* repair cursors; when they are not supported the probe's err is
\* returned, whatever it is. (The isMongos return of line 182 cannot be
\* taken: Init, lines 102-104, has refused Repair on a mongos.)
RepairProbe ==
    /\ dpc = "probe"
    /\ IF ~repairMode
         THEN /\ probe' = "repair off"
              /\ dpc' = "metadata"
              /\ UNCHANGED <<managerIntents, steps, dRet>>
         ELSE LET exampleIntent == Peek(managerIntents)
              IN /\ managerIntents' = exampleIntent.left
                 /\ IF ~exampleIntent.sample
                      THEN /\ probe' = "no intent"
                           /\ dpc' = "metadata"
                           /\ UNCHANGED <<steps, dRet>>
                      ELSE \E r \in SupportsRepairCursorResults :
                             /\ steps' = Append(steps,
                                   Step("SupportsRepairCursor", r.supported))
                             /\ probe' = IF r.supported THEN "supported"
                                         ELSE IF r.err THEN "unsupported, error"
                                         ELSE "unsupported, nil"
                             /\ dpc' = IF r.supported THEN "metadata"
                                       ELSE IF r.err THEN "failed"
                                       ELSE "done"
                             /\ dRet' = IF r.supported THEN dRet
                                        ELSE IF r.err THEN "repair not supported"
                                        ELSE "ok"
    /\ UNCHANGED <<repairMode, intentsPut, oldestRead, masterDoc, oplogOpt,
                   toolDB, dbUsersRoles, sysIndexDBs, authIntents, oplog,
                   clock, oplogCollection, oplogStart, oplogOut, cursorLast,
                   clockAtEnd>>

\* lines 200-203: err = dump.DumpMetadata()
DumpMetadata ==
    /\ dpc = "metadata"
    /\ \E ok \in BOOLEAN :
        /\ steps' = Append(steps, Step("DumpMetadata", ok))
        /\ dpc' = IF ok THEN "sysidx" ELSE "failed"
        /\ dRet' = IF ok THEN dRet ELSE "error dumping metadata"
    /\ UNCHANGED <<repairMode, managerIntents, intentsPut, probe,
                   oldestRead, masterDoc, oplogOpt, toolDB, dbUsersRoles, sysIndexDBs, authIntents,
                   oplog, clock, oplogCollection, oplogStart, oplogOut,
                   cursorLast, clockAtEnd>>

\* lines 205-208 and 573-581: DumpSystemIndexes calls DumpIntent on the
\* system.indexes intent of every database, up to the first failure
DumpSystemIndexes ==
    /\ dpc = "sysidx"
    /\ \E f \in 0..sysIndexDBs :
        /\ steps' = steps \o Calls("DumpIntent", sysIndexDBs, f)
        /\ dpc' = IF f = 0 THEN "users" ELSE "failed"
        /\ dRet' = IF f = 0 THEN dRet ELSE "error dumping system indexes"
    /\ UNCHANGED <<repairMode, managerIntents, intentsPut, probe,
                   oldestRead, masterDoc, oplogOpt, toolDB, dbUsersRoles, sysIndexDBs, authIntents,
                   oplog, clock, oplogCollection, oplogStart, oplogOut,
                   cursorLast, clockAtEnd>>

\* lines 210-215 and 548-570: on a full dump or a dump of admin,
\* DumpUsersAndRoles calls DumpIntent on each of the users, roles and auth
\* version intents that exists, up to the first failure
DumpUsersAndRoles ==
    /\ dpc = "users"
    /\ IF toolDB \in {"admin", ""}
         THEN \E f \in 0..Cardinality(authIntents) :
                /\ steps' = steps \o Calls("DumpIntent", Cardinality(authIntents), f)
                /\ dpc' = IF f = 0 THEN "dbusers" ELSE "failed"
                /\ dRet' = IF f = 0 THEN dRet ELSE "error dumping users and roles"
         ELSE /\ dpc' = "dbusers"
              /\ UNCHANGED <<steps, dRet>>
    /\ UNCHANGED <<repairMode, managerIntents, intentsPut, probe,
                   oldestRead, masterDoc, oplogOpt, toolDB, dbUsersRoles, sysIndexDBs, authIntents,
                   oplog, clock, oplogCollection, oplogStart, oplogOut,
                   cursorLast, clockAtEnd>>

\* lines 216-226: with dumpDbUsersAndRoles, DumpUsersAndRolesForDB unless
\* the database is admin
DumpDBUsersAndRoles ==
    /\ dpc = "dbusers"
    /\ IF dbUsersRoles /\ toolDB # "admin"
         THEN \E ok \in BOOLEAN :
                /\ steps' = Append(steps, Step("DumpUsersAndRolesForDB", ok))
                /\ dpc' = IF ok THEN "determine" ELSE "failed"
                /\ dRet' = IF ok THEN dRet
                           ELSE "error dumping users and roles for db"
         ELSE /\ dpc' = "determine"
              /\ UNCHANGED <<steps, dRet>>
    /\ UNCHANGED <<repairMode, managerIntents, intentsPut, probe,
                   oldestRead, masterDoc, oplogOpt, toolDB, dbUsersRoles, sysIndexDBs, authIntents,
                   oplog, clock, oplogCollection, oplogStart, oplogOut,
                   cursorLast, clockAtEnd>>

\* lines 232-236: with --oplog, determineOplogCollectionName
DetermineOplog ==
    /\ dpc = "determine"
    /\ IF oplogOpt
         THEN \E resp \in ProbeResponses :
                LET d == determineOplogCollectionName(resp, oplogCollection)
                IN /\ oplogCollection' = d.coll
                   /\ masterDoc' = resp
                   /\ steps' = Append(steps,
                                 Step("determineOplogCollectionName", ~d.err))
                   /\ dpc' = IF d.err THEN "failed" ELSE "capture"
                   /\ dRet' = IF d.err THEN "error finding oplog" ELSE dRet
         ELSE /\ dpc' = "intents"
              /\ UNCHANGED <<oplogCollection, masterDoc, steps, dRet>>
    /\ UNCHANGED <<repairMode, managerIntents, intentsPut, probe,
                   oldestRead, oplogOpt, toolDB, dbUsersRoles, sysIndexDBs,
                   authIntents,
                   oplog, clock, oplogStart, oplogOut, cursorLast, clockAtEnd>>

\* lines 237-241: dump.oplogStart, err = dump.getOplogStartTime()
CaptureOplogStart ==
    /\ dpc = "capture"
    /\ \E r \in getOplogStartTime(oplog) :
        /\ oplogStart' = r.ts
        /\ steps' = Append(steps, Step("getOplogStartTime", ~r.err))
        /\ dpc' = IF r.err THEN "failed" ELSE "intents"
        /\ dRet' = IF r.err THEN "error getting oplog start" ELSE dRet
    /\ UNCHANGED <<repairMode, managerIntents, intentsPut, probe,
                   oldestRead, masterDoc, oplogOpt, toolDB, dbUsersRoles, sysIndexDBs, authIntents,
                   oplog, clock, oplogCollection, oplogOut, cursorLast,
                   clockAtEnd>>

\* the error of DumpIntents not returned
RunDumpIntentsIgnoreErr ==
    /\ dpc = "intents"
    /\ \E ok \in BOOLEAN :
        /\ steps' = Append(steps, Step("DumpIntents", ok))
        /\ dpc' = IF oplogOpt THEN "check1" ELSE "done"
        /\ dRet' = IF oplogOpt THEN dRet ELSE "ok"
    /\ UNCHANGED <<repairMode, managerIntents, intentsPut, probe,
                   oldestRead, masterDoc, oplogOpt, toolDB, dbUsersRoles, sysIndexDBs, authIntents,
                   oplog, clock, oplogCollection, oplogStart, oplogOut,
                   cursorLast, clockAtEnd>>

\* lines 255-257 and 302-304: the normal collections are copied by
\* DumpIntents, whose error is returned; without --oplog its success is
\* the success of Dump
RunDumpIntents ==
    /\ dpc = "intents"
    /\ \E ok \in BOOLEAN :
        /\ steps' = Append(steps, Step("DumpIntents", ok))
        /\ dpc' = IF ~ok THEN "failed" ELSE IF oplogOpt THEN "check1" ELSE "done"
        /\ dRet' = IF ~ok THEN "error dumping intents"
                   ELSE IF oplogOpt THEN dRet ELSE "ok"
    /\ UNCHANGED <<repairMode, managerIntents, intentsPut, probe,
                   oldestRead, masterDoc, oplogOpt, toolDB, dbUsersRoles, sysIndexDBs, authIntents,
                   oplog, clock, oplogCollection, oplogStart, oplogOut,
                   cursorLast, clockAtEnd>>

\* lines 271-278 (from = "check1") and 291-298 (from = "check2"): the
\* overflow check; !exists is tested first, then err
CheckOverflow(from, to) ==
    /\ dpc = from
    /\ \E r \in checkOplogTimestampExists(oplog, oplogStart) :
        LET e == IF ~r.exists THEN "oplog overflow"
                 ELSE IF r.err THEN "unable to check oplog for overflow"
                 ELSE "nil"
        IN /\ oldestRead' = IF r.err THEN "error" ELSE "entry"
           /\ steps' = Append(steps, Step("checkOplogTimestampExists", e = "nil"))
           /\ dpc' = IF e # "nil" THEN "failed" ELSE to
           /\ dRet' = IF e # "nil" THEN e ELSE IF to = "done" THEN "ok" ELSE dRet
    /\ UNCHANGED <<repairMode, managerIntents, intentsPut, probe,
                   masterDoc, oplogOpt, toolDB, dbUsersRoles, sysIndexDBs,
                   authIntents, oplog, clock, oplogCollection, oplogStart,
                   oplogOut, cursorLast, clockAtEnd>>

CheckOverflowBefore == CheckOverflow("check1", "copy")

CheckOverflowAfter == CheckOverflow("check2", "done")

\* lines 282-285, oplog_dump.go 72-84 and mongodump.go 423-438:
\* DumpOplogAfterTimestamp gets a session, builds the query and, in
\* dumpQueryToWriter, counts it and opens the cursor; each may fail
OplogCopyOpen ==
    /\ dpc = "copy"
    /\ \E ok \in BOOLEAN :
        /\ steps' = Append(steps, Step("DumpOplogAfterTimestamp", ok))
        /\ dpc' = IF ok THEN "copying" ELSE "failed"
        /\ dRet' = IF ok THEN dRet ELSE "error dumping oplog"
    /\ cursorLast' = 0
    /\ UNCHANGED <<repairMode, managerIntents, intentsPut, probe,
                   oldestRead, masterDoc, oplogOpt, toolDB, dbUsersRoles, sysIndexDBs, authIntents,
                   oplog, clock, oplogCollection, oplogStart, oplogOut,
                   clockAtEnd>>

\* the copy fails: the cursor or the destination reports an error
OplogCopyFail ==
    /\ dpc = "copying"
    /\ steps' = [steps EXCEPT ![Len(steps)].ok = FALSE]
    /\ dpc' = "failed"
    /\ dRet' = "error dumping oplog"
    /\ UNCHANGED <<repairMode, managerIntents, intentsPut, probe,
                   oldestRead, masterDoc, oplogOpt, toolDB, dbUsersRoles, sysIndexDBs, authIntents,
                   oplog, clock, oplogCollection, oplogStart, oplogOut,
                   cursorLast, clockAtEnd>>

\* dumpIterToWriter on the oplog cursor: the next matching entry, in
\* natural order, is written to the oplog destination; when none is left
\* the cursor is exhausted and the copy returns success. (A cursor whose
\* position the capped collection has dropped may fail, OplogCopyFail, or
\* go on with the oldest entry left.)
OplogCopyNext ==
    /\ dpc = "copying"
    /\ LET rest == CursorRest(oplog, oplogStart, cursorLast)
       IN IF rest = <<>>
            THEN /\ dpc' = "check2"
                 /\ clockAtEnd' = clock
                 /\ UNCHANGED <<oplogOut, cursorLast>>
            ELSE /\ oplogOut' = Append(oplogOut, Head(rest))
                 /\ cursorLast' = Head(rest)
                 /\ UNCHANGED <<dpc, clockAtEnd>>
    /\ UNCHANGED <<repairMode, managerIntents, intentsPut, probe,
                   oldestRead, masterDoc, oplogOpt, toolDB, dbUsersRoles, sysIndexDBs, authIntents,
                   dRet, steps, oplog, clock, oplogCollection, oplogStart>>

NextDump ==
    /\ \/ OplogWrite
       \/ CreateIntents
       \/ RepairProbe
       \/ DumpMetadata
       \/ DumpSystemIndexes
       \/ DumpUsersAndRoles
       \/ DumpDBUsersAndRoles
       \/ DetermineOplog
       \/ CaptureOplogStart
       \/ RunDumpIntents
       \/ CheckOverflowBefore
       \/ OplogCopyOpen
       \/ OplogCopyNext
       \/ OplogCopyFail
       \/ CheckOverflowAfter
    /\ UNCHANGED <<iVars, pVars, cVars, kVars>>

\* --------------------------------------------------------- DumpIntent
\* the state when DumpIntent is entered. ValidateOptions (line 75) refuses
\* a query together with Repair.
InitCopy ==
    /\ repairOpt \in BOOLEAN
    /\ useStdout \in BOOLEAN
    /\ queryOpt \in {"query", "tableScan", "none"}
    /\ ~(repairOpt /\ queryOpt = "query")
    /\ sysIdx \in BOOLEAN
    /\ cpc = "session"
    /\ cRet = "none"
    /\ exitPath = "none"
    /\ sessionOpen = FALSE
    /\ fileOpen = FALSE
    /\ openCalls = 0
    /\ closeCalls = 0
    /\ findQuery = "none"
    /\ countCalls = 0
    /\ cursorKind = "none"

\* DumpIntent not running
IdleCopy ==
    /\ repairOpt = FALSE
    /\ useStdout = FALSE
    /\ queryOpt = "none"
    /\ sysIdx = FALSE
    /\ cpc = "idle"
    /\ cRet = "none"
    /\ exitPath = "none"
    /\ sessionOpen = FALSE
    /\ fileOpen = FALSE
    /\ openCalls = 0
    /\ closeCalls = 0
    /\ findQuery = "none"
    /\ countCalls = 0
    /\ cursorKind = "none"

\* the deferred calls that leave the file open
DeferredCallsNoFileClose ==
    /\ sessionOpen' = FALSE
    /\ UNCHANGED <<fileOpen, closeCalls>>

\* lines 363 and 373: the deferred session.Close() and
\* intent.BSONFile.Close(), run at every return after their defer statement
DeferredCalls ==
    /\ sessionOpen' = FALSE
    /\ fileOpen' = FALSE
    /\ closeCalls' = IF fileOpen THEN closeCalls + 1 ELSE closeCalls

\* a return statement of DumpIntent, with the deferred calls
Return(ret, path) ==
    /\ cpc' = "returned"
    /\ cRet' = ret
    /\ exitPath' = path
    /\ DeferredCalls

\* lines 358-361: GetSession
CopyGetSession ==
    /\ cpc = "session"
    /\ \E ok \in BOOLEAN :
        IF ok
          THEN /\ sessionOpen' = TRUE
               /\ cpc' = "open"
               /\ UNCHANGED <<cRet, exitPath, fileOpen, closeCalls>>
          ELSE Return("err", "session error")
    /\ UNCHANGED <<repairOpt, useStdout, queryOpt, sysIdx, openCalls,
                   findQuery, countCalls, cursorKind>>
    /\ UNCHANGED pVars

\* lines 369-373: intent.BSONFile.Open() and the deferred Close
CopyOpenFile ==
    /\ cpc = "open"
    /\ \E ok \in BOOLEAN :
        IF ok
          THEN /\ fileOpen' = TRUE
               /\ openCalls' = openCalls + 1
               /\ cpc' = "query"
               /\ UNCHANGED <<cRet, exitPath, sessionOpen, closeCalls>>
          ELSE /\ Return("err", "open error")
               /\ UNCHANGED openCalls
    /\ UNCHANGED <<repairOpt, useStdout, queryOpt, sysIdx, findQuery,
                   countCalls, cursorKind>>
    /\ UNCHANGED pVars

\* lines 450-469 of dumpIterToWriter: the documents of the cursor, the
\* channel, the reader goroutine and the empty bufio.Writer
EnterPipe ==
    /\ \E n \in 0..MaxDocs : iterSrc' = Iota(n)
    /\ iterPos' = 0
    /\ iterErr' = FALSE
    /\ rpc' = "next"
    /\ nextCopy' = 0
    /\ chanClosed' = FALSE
    /\ mpc' = "recv"
    /\ buff' = 0
    /\ wbuf' = <<>>
    /\ dest' = <<>>
    /\ flushCalls' = 0
    /\ progressCount' = 0
    /\ pRet' = "none"

\* lines 375-399: the query is chosen; with useStdout, and otherwise
\* without Repair, dumpQueryToWriter is entered; with Repair and without
\* useStdout the Repair cursor is opened and dumpIterToWriter entered
CopySelectQuery ==
    /\ cpc = "query"
    /\ findQuery' = CASE queryOpt = "query" -> "Find(query)"
                      [] queryOpt = "tableScan" -> "Find(nil)"
                      [] OTHER -> "Find(nil).Snapshot()"
    /\ IF useStdout \/ ~repairOpt
         THEN /\ cpc' = "count"
              /\ UNCHANGED cursorKind
              /\ UNCHANGED pVars
         ELSE /\ cpc' = "copy"
              /\ cursorKind' = "repair"
              /\ EnterPipe
    /\ UNCHANGED <<repairOpt, useStdout, queryOpt, sysIdx, cRet, exitPath,
                   sessionOpen, fileOpen, openCalls, closeCalls, countCalls>>

\* lines 423-439 of dumpQueryToWriter: query.Count(), then query.Iter()
\* and dumpIterToWriter
CopyCount ==
    /\ cpc = "count"
    /\ countCalls' = countCalls + 1
    /\ \E ok \in BOOLEAN :
        IF ok
          THEN /\ cursorKind' = "query"
               /\ cpc' = "copy"
               /\ EnterPipe
               /\ UNCHANGED <<cRet, exitPath, sessionOpen, fileOpen,
                              closeCalls>>
          ELSE /\ Return("err", IF useStdout THEN "stdout" ELSE "count error")
               /\ UNCHANGED cursorKind
               /\ UNCHANGED pVars
    /\ UNCHANGED <<repairOpt, useStdout, queryOpt, sysIdx, openCalls,
                   findQuery>>

\* lines 389, 395-396, 402-403 and 410-415: dumpIterToWriter has returned;
\* its result is returned as it is (stdout), or returned if it is an error
\* (wrapped with Repair), and otherwise nil is returned, early for
\* system.indexes
CopyReturn ==
    /\ cpc = "copy"
    /\ mpc = "returned"
    /\ IF useStdout
         THEN Return(IF pRet = "ok" THEN "nil" ELSE "err", "stdout")
         ELSE IF pRet # "ok"
           THEN Return("err", IF repairOpt THEN "repair error"
                              ELSE "copy error")
           ELSE Return("nil", IF sysIdx THEN "system.indexes" ELSE "done")
    /\ UNCHANGED <<repairOpt, useStdout, queryOpt, sysIdx, openCalls,
                   findQuery, countCalls, cursorKind>>
    /\ UNCHANGED pVars

\* the steps of dumpIterToWriter within DumpIntent
CopyPipeStep ==
    /\ cpc = "copy"
    /\ \/ ReaderNext
       \/ Handoff
       \/ RecvClosed
       \/ WriteDoc
       \/ FlushAndReturn
    /\ UNCHANGED cVars

NextCopy ==
    /\ \/ CopyGetSession
       \/ CopyOpenFile
       \/ CopySelectQuery
       \/ CopyCount
       \/ CopyPipeStep
       \/ CopyReturn
    /\ UNCHANGED <<iVars, dVars, kVars>>

\* ------------------------------------------- CreateIntentsForDatabase
\* names are sequences of characters
SystemJs == <<"s", "y", "s", "t", "e", "m", ".", "j", "s">>
SystemDot == <<"s", "y", "s", "t", "e", "m", ".">>
Bar == <<"b", "a", "r">>
Barn == <<"b", "a", "r", "n">>
Ba == <<"b", "a">>

\* the collection names a database may hold
ColNames == {SystemJs, Bar, Barn}

\* the names and the prefixes the options may exclude
ExclNames == {SystemJs, Bar, Ba}
ExclPrefixes == {SystemDot, Bar, Ba, <<>>}

\* the lists of at most n different elements of S
Lists(S, n) ==
    UNION {{q \in [1..k -> S] : \A i, j \in 1..k : q[i] = q[j] => i = j} :
             k \in 0..n}

\* strings.HasPrefix(s, prefix)
HasPrefix(s, prefix) ==
    Len(s) >= Len(prefix) /\ SubSeq(s, 1, Len(prefix)) = prefix

\* the prefixes not looked at
shouldSkipCollectionNoPrefix(colName) ==
    \E i \in 1..Len(excludedCollections) : colName = excludedCollections[i]

\* part_000 14-26
shouldSkipCollection(colName) ==
    \/ \E i \in 1..Len(excludedCollections) :
          colName = excludedCollections[i]
    \/ \E i \in 1..Len(excludedCollectionPrefixes) :
          HasPrefix(colName, excludedCollectionPrefixes[i])

\* the state when CreateIntentsForDatabase is called
InitCreate ==
    /\ cols \in Lists(ColNames, MaxCols)
    /\ excludedCollections \in Lists(ExclNames, MaxExcl)
    /\ excludedCollectionPrefixes \in Lists(ExclPrefixes, MaxExcl)
    /\ kpc = "start"
    /\ colIdx = 0
    /\ created = <<>>
    /\ kRet = "none"

\* CreateIntentsForDatabase not running
IdleCreate ==
    /\ cols = <<>>
    /\ excludedCollections = <<>>
    /\ excludedCollectionPrefixes = <<>>
    /\ kpc = "idle"
    /\ colIdx = 0
    /\ created = <<>>
    /\ kRet = "none"

\* part_000 164-173: os.MkdirAll and CollectionNames, either may fail
CreateIntentsForDatabaseStart ==
    /\ kpc = "start"
    /\ \E ok \in BOOLEAN :
        IF ok
          THEN /\ kpc' = "loop"
               /\ UNCHANGED kRet
          ELSE /\ kpc' = "returned"
               /\ kRet' = "err"
    /\ UNCHANGED <<cols, excludedCollections, excludedCollectionPrefixes,
                   colIdx, created>>

\* part_000 176-179 and 109-158: CreateIntentForCollection on the next
\* name. A skipped name returns nil with nothing done; otherwise the
\* files are created, a session is got and the documents are counted, any
\* of which may fail, and then the intent is Put.
CreateIntentForCollection ==
    /\ kpc = "loop"
    /\ colIdx < Len(cols)
    /\ LET colName == cols[colIdx + 1]
       IN IF shouldSkipCollection(colName)
            THEN /\ colIdx' = colIdx + 1
                 /\ UNCHANGED <<created, kpc, kRet>>
            ELSE \E ok \in BOOLEAN :
                   IF ok
                     THEN /\ created' = Append(created, colName)
                          /\ colIdx' = colIdx + 1
                          /\ UNCHANGED <<kpc, kRet>>
                     ELSE /\ kpc' = "returned"
                          /\ kRet' = "err"
                          /\ UNCHANGED <<created, colIdx>>
    /\ UNCHANGED <<cols, excludedCollections, excludedCollectionPrefixes>>

\* part_000 181: return nil after the loop
CreateIntentsForDatabaseReturn ==
    /\ kpc = "loop"
    /\ colIdx = Len(cols)
    /\ kpc' = "returned"
    /\ kRet' = "nil"
    /\ UNCHANGED <<cols, excludedCollections, excludedCollectionPrefixes,
                   colIdx, created>>

NextCreate ==
    /\ \/ CreateIntentsForDatabaseStart
       \/ CreateIntentForCollection
       \/ CreateIntentsForDatabaseReturn
    /\ UNCHANGED <<iVars, pVars, dVars, cVars>>

\* DumpIntents alone
StartIntents == InitIntents /\ IdlePipe /\ IdleDump /\ IdleCopy /\ IdleCreate

SpecIntents == StartIntents /\ [][NextIntents]_vars

\* the steps of the goroutine of DumpIntents; the receive of line 348 is
\* one step with the send of the worker it takes the value from
DumpIntentsStep ==
    /\ \/ DumpIntentsFinalize
       \/ SpawnWorker
       \/ \E w \in Workers : ReceiveResult(w)
    /\ UNCHANGED <<pVars, dVars, cVars, kVars>>

\* the steps of worker w (lines 327-343)
WorkerStep(w) ==
    /\ \/ WorkerPop(w)
       \/ WorkerDumpIntent(w)
       \/ WorkerFinish(w)
       \/ ReceiveResult(w)
    /\ UNCHANGED <<pVars, dVars, cVars, kVars>>

\* the Go scheduler leaves no goroutine that can run waiting for ever, and
\* every DumpIntent call terminates
FairIntents ==
    /\ WF_vars(DumpIntentsStep)
    /\ \A w \in Workers : WF_vars(WorkerStep(w))

\* DumpIntents alone, under fair scheduling
SpecIntentsFair == StartIntents /\ [][NextIntents]_vars /\ FairIntents

\* dumpIterToWriter alone
StartPipe == InitPipe /\ IdleIntents /\ IdleDump /\ IdleCopy /\ IdleCreate

SpecPipe == StartPipe /\ [][NextPipe]_vars

\* the steps of the reader goroutine (lines 451-466); its send is one step
\* with the receive of the write loop
ReaderStep ==
    /\ \/ ReaderNext
       \/ Handoff
    /\ UNCHANGED <<iVars, dVars, cVars, kVars>>

\* the steps of the write loop (lines 473-493)
WriterStep ==
    /\ \/ Handoff
       \/ RecvClosed
       \/ WriteDoc
       \/ FlushAndReturn
    /\ UNCHANGED <<iVars, dVars, cVars, kVars>>

\* the Go scheduler leaves no goroutine that can run waiting for ever, and
\* every iter.Next and every write returns
FairPipe == WF_vars(ReaderStep) /\ WF_vars(WriterStep)

\* dumpIterToWriter alone, under fair scheduling
SpecPipeFair == StartPipe /\ [][NextPipe]_vars /\ FairPipe

\* Dump without --repair, with DumpIntents and the pipelines as single
\* steps
StartDump ==
    /\ InitDump /\ ~repairMode
    /\ IdleIntents /\ IdlePipe /\ IdleCopy /\ IdleCreate

SpecDump == StartDump /\ [][NextDump]_vars

\* Dump with --repair
StartRepair ==
    /\ InitDump /\ repairMode
    /\ IdleIntents /\ IdlePipe /\ IdleCopy /\ IdleCreate

SpecRepair == StartRepair /\ [][NextDump]_vars

\* one DumpIntent call
StartCopy ==
    InitCopy /\ IdleIntents /\ IdlePipe /\ IdleDump /\ IdleCreate

SpecCopy == StartCopy /\ [][NextCopy]_vars

\* one CreateIntentsForDatabase call
StartCreate ==
    InitCreate /\ IdleIntents /\ IdlePipe /\ IdleDump /\ IdleCopy

SpecCreate == StartCreate /\ [][NextCreate]_vars

\* ============================================================ claims
Count(q, x) == Cardinality({i \in 1..Len(q) : q[i] = x})

IsPrefix(a, b) == Len(a) <= Len(b) /\ a = SubSeq(b, 1, Len(a))

\* ---- C1
\* C1 as stated: no intent is popped twice, no two workers copy the same
\* intent at once, and when DumpIntents has returned every intent of the
\* working set was popped exactly once.
C1_EveryIntentPoppedExactlyOnce ==
    /\ \A i \in Range(workingSet) : Count(popLog, i) <= 1
    /\ diPc = "returned" => \A i \in Range(workingSet) : Count(popLog, i) = 1

\* C1 as amended: under every interleaving no intent is returned by Pop
\* twice and no two workers copy the same intent at once; when DumpIntents
\* returns success (nil), every intent of the working set was popped
\* exactly once. (When it returns an error, intents may be left unpopped.)
C1_PoppedAtMostOnceAndAllOnSuccess ==
    /\ \A i \in Range(workingSet) : Count(popLog, i) <= 1
    /\ \A v, w \in Workers :
        (v # w /\ wpc[v] = "dump" /\ wpc[w] = "dump") => wIntent[v] # wIntent[w]
    /\ (diPc = "returned" /\ diErr = 0) =>
        \A i \in Range(workingSet) : Count(popLog, i) = 1

\* two workers drained a working set of two intents, both copies
\* succeeded and DumpIntents returned success
C1_Witness ==
    /\ diPc = "returned" /\ diErr = 0
    /\ jobs = 2 /\ Len(popLog) = 2 /\ Len(finishLog) = 2
    /\ wpc[1] = "done" /\ wpc[2] = "done"

\* ---- C2
\* C2: when DumpIntents has returned, all jobs workers have reported their
\* outcome on the result channel.
C2_ReturnsAfterAllWorkersReported ==
    diPc = "returned" => Len(recvLog) = jobs

\* ---- C3
\* the first non-nil value of a sequence of results, 0 (nil) if there is none
FirstNonNil(q) ==
    LET nz == {i \in 1..Len(q) : q[i] # 0}
    IN IF nz = {} THEN 0 ELSE q[CHOOSE i \in nz : \A j \in nz : i <= j]

\* C3: the value DumpIntents returns is the first non-nil error it received
\* from the workers, and it returns nil only if no DumpIntent call of a
\* worker failed.
C3_FirstErrorIsReturned ==
    diPc = "returned" =>
        /\ diErr = FirstNonNil(recvLog)
        /\ diErr = 0 => \A i \in Range(workingSet) : copyResult[i] # "err"
        /\ diErr # 0 => copyResult[diErr] = "err"

\* a worker reported nil first, then another reported its error, which
\* was returned
C3_Witness ==
    /\ diPc = "returned"
    /\ Len(recvLog) = 2 /\ recvLog[1] = 0 /\ recvLog[2] # 0
    /\ diErr = recvLog[2]

\* ---- C4
\* C4: with --oplog, a check (before or after the oplog copy) made while
\* the oldest entry of the oplog is newer than the captured start ends Dump
\* with the oplog overflow error; at the first check nothing has been
\* copied to the oplog destination; and Dump does not report success when
\* the oldest entry is newer than the start.
C4_OverflowFailsTheRun ==
    /\ [][(/\ dpc \in {"check1", "check2"}
           /\ dpc' # dpc
           /\ oplog # <<>>
           /\ Head(oplog) > oplogStart)
          => (/\ dpc' = "failed"
              /\ dRet' = "oplog overflow"
              /\ dpc = "check1" =>
                    (/\ oplogOut' = <<>>
                     /\ \A i \in 1..Len(steps') :
                           steps'[i].name # "DumpOplogAfterTimestamp"))]_vars
    /\ []((oplogOpt /\ dRet = "ok") => Head(oplog) <= oplogStart)

\* the oplog rolled over during the oplog copy and the second check failed
\* the run
C4_Witness ==
    /\ dRet = "oplog overflow"
    /\ Head(oplog) > oplogStart
    /\ Count([i \in 1..Len(steps) |-> steps[i].name],
             "checkOplogTimestampExists") = 2

\* ---- C5
StepNames(q) == [i \in 1..Len(q) |-> q[i].name]

ProtocolOrder ==
    <<"determineOplogCollectionName", "getOplogStartTime", "DumpIntents",
      "checkOplogTimestampExists", "DumpOplogAfterTimestamp",
      "checkOplogTimestampExists">>

ProtocolSteps(q) == SelectSeq(q, LAMBDA st : st.name \in Range(ProtocolOrder))

\* C5: with --oplog the steps determine, capture, DumpIntents, first check,
\* oplog copy, second check are made in this order; every step but the
\* last made has succeeded; a failed step has ended Dump with an error; and
\* Dump reports success only after all six have succeeded.
C5_StepsInOrder ==
    oplogOpt =>
        /\ IsPrefix(StepNames(ProtocolSteps(steps)), ProtocolOrder)
        /\ \A i \in 1..(Len(steps) - 1) : steps[i].ok
        /\ (steps # <<>> /\ ~Last(steps).ok) =>
              (dpc = "failed" /\ dRet \notin {"none", "ok"})
        /\ dpc = "failed" => (steps # <<>> /\ ~Last(steps).ok)
        /\ dRet = "ok" =>
              /\ dpc = "done"
              /\ StepNames(ProtocolSteps(steps)) = ProtocolOrder
              /\ \A i \in 1..Len(steps) : steps[i].ok

\* a run with --oplog ended in success
C5_Witness ==
    /\ oplogOpt /\ dRet = "ok"
    /\ Len(ProtocolSteps(steps)) = 6

\* ---- C6
\* C6: with --oplog, every DumpIntent call of the run (those of
\* DumpSystemIndexes and DumpUsersAndRoles, and those of DumpIntents) comes
\* after the start timestamp was captured.
C6_StartCapturedBeforeAnyCopy ==
    oplogOpt =>
        \A i \in 1..Len(steps) :
            steps[i].name \in {"DumpIntent", "DumpIntents"} =>
                \E j \in 1..(i - 1) : steps[j].name = "getOplogStartTime"

\* ---- C7
\* C7 as stated, its particular case: in a successful run with exactly one
\* write after the capture and before the final check, the oplog
\* destination holds exactly that entry.
C7_SingleWriteBeforeFinalCheck ==
    (oplogOpt /\ dRet = "ok" /\ clock = oplogStart + 1) => oplogOut = <<clock>>

\* C7 as amended: the oplog destination only ever holds entries newer than
\* the captured start, in natural order; when Dump succeeds it holds
\* exactly the entries newer than the start that the source had written
\* when the copy's cursor reached the end of the oplog. (An entry written
\* after that, even before the final check, is not copied.)
C7_OplogCopyExact ==
    /\ \A i \in 1..Len(oplogOut) : oplogOut[i] > oplogStart
    /\ \A i \in 1..(Len(oplogOut) - 1) : oplogOut[i] < oplogOut[i + 1]
    /\ (oplogOpt /\ dRet = "ok") =>
          oplogOut = [i \in 1..(clockAtEnd - oplogStart) |-> oplogStart + i]

\* the single write made during the run was copied, alone
C7_Witness ==
    /\ oplogOpt /\ dRet = "ok"
    /\ clock = oplogStart + 1
    /\ oplogOut = <<clock>>

\* ---- C8
\* C8: when dumpIterToWriter returns success, the destination holds exactly
\* the documents the cursor produced, each once, in cursor order.
C8_DestinationIsSourceInOrder ==
    pRet = "ok" =>
        /\ dest = SubSeq(iterSrc, 1, iterPos)
        /\ iterPos = Len(iterSrc)

\* three documents or more were copied and the buffer was written out on
\* the way
C8_Witness ==
    /\ pRet = "ok"
    /\ Len(dest) >= 3

\* ---- C9
\* C9: when dumpIterToWriter has returned, on whatever path, w.Flush() has
\* been called.
C9_FlushedOnEveryExit ==
    pRet # "none" => flushCalls >= 1

\* ---- C10
\* C10: when the cursor stopped with an error, dumpIterToWriter does not
\* return success; unless a write failed before, it returns the cursor's
\* error.
C10_CursorErrorIsReturned ==
    (iterErr /\ pRet # "none") =>
        /\ pRet # "ok"
        /\ pRet # "writeErr" => pRet = "readErr"

\* the cursor failed after two documents that were both written, and the
\* error was returned
C10_Witness ==
    /\ pRet = "readErr"
    /\ iterPos >= 2
    /\ Len(dest) + Len(wbuf) = iterPos

\* ---- C11
\* the documents held between the cursor and the bufio.Writer: the
\* reader's copy waiting at the handoff and the one the write loop received
InFlight ==
    (IF nextCopy # 0 THEN 1 ELSE 0) + (IF buff # 0 THEN 1 ELSE 0)

\* C11: at every moment at most 2 documents were taken from the cursor and
\* not yet written: while the pipeline runs they are exactly the one the
\* reader holds at the handoff and the one the write loop is writing; the
\* reader is about to fetch only when it holds no document.
C11_AtMostTwoInFlight ==
    /\ iterPos - progressCount <= 2
    /\ pRet = "none" => iterPos = progressCount + InFlight
    /\ rpc = "next" => nextCopy = 0

\* the reader waits at the handoff with a document while the write loop
\* writes the previous one
C11_Witness ==
    /\ rpc = "send" /\ nextCopy # 0
    /\ mpc = "write" /\ buff # 0
    /\ iterPos - progressCount = 2

\* ---- C12
\* C12: the progress counter always equals the number of documents written
\* (buffered in the bufio.Writer or in the destination), never exceeds the
\* number read from the cursor, and on success equals the number of
\* documents the cursor produced.
C12_CounterCountsWrites ==
    /\ progressCount = Len(dest) + Len(wbuf)
    /\ progressCount <= iterPos
    /\ pRet = "ok" => (progressCount = iterPos /\ iterPos = Len(iterSrc))

\* a write failed after documents were counted
C12_Witness ==
    /\ pRet = "writeErr"
    /\ progressCount >= 2
    /\ iterPos > progressCount

\* ---- C13
\* C13: the step of Dump that determines the oplog collection decides by
\* the isMaster response: the command failed, an error and the collection
\* left as it was; member hosts listed, oplog.rs whatever the primary
\* flag; otherwise a primary flag that is false or absent, the error and
\* the collection left as it was; otherwise oplog.$main.
C13_NamespaceDecision ==
    [][(dpc = "determine" /\ oplogOpt /\ dpc' # dpc) =>
        IF masterDoc'.cmdErr
          THEN /\ dpc' = "failed" /\ dRet' = "error finding oplog"
               /\ oplogCollection' = oplogCollection
        ELSE IF masterDoc'.hosts
          THEN /\ dpc' = "capture" /\ dRet' = "none"
               /\ oplogCollection' = "oplog.rs"
        ELSE IF masterDoc'.ismaster \in {"false", "absent"}
          THEN /\ dpc' = "failed" /\ dRet' = "error finding oplog"
               /\ oplogCollection' = oplogCollection
          ELSE /\ dpc' = "capture" /\ dRet' = "none"
               /\ oplogCollection' = "oplog.$main"]_vars

\* a member of a replica set that is not the primary: oplog.rs was chosen
C13_Witness ==
    /\ dpc = "capture"
    /\ masterDoc.hosts /\ masterDoc.ismaster = "false"
    /\ oplogCollection = "oplog.rs"

\* ---- C14
\* C14: DumpIntents calls Finalize exactly once, before any worker is
\* started and so before any Pop; the policy is LongestTaskFirst when the
\* parallelism MaxInt(MaxProcs, 1) is greater than 1 and Legacy when it
\* is 1.
C14_FinalizeOnceBeforePop ==
    /\ finalizeCalls <= 1
    /\ (popLog # <<>> \/ \E w \in Workers : wpc[w] # "idle")
          => finalizeCalls = 1
    /\ diPc = "start" => (finalizeCalls = 0 /\ policy = "none")
    /\ diPc # "start" =>
          /\ finalizeCalls = 1
          /\ jobs = MaxInt(maxProcs, 1)
          /\ policy = IF jobs > 1 THEN "LongestTaskFirst" ELSE "Legacy"

\* a run with two workers returned after Pops under LongestTaskFirst
C14_Witness ==
    /\ diPc = "returned"
    /\ jobs = 2 /\ policy = "LongestTaskFirst"
    /\ Len(popLog) = 2
    /\ finalizeCalls = 1

\* ---- C15
\* C15: under LongestTaskFirst the intents come out of Pop, in the order
\* the Pops take effect across all workers, with non-increasing Size;
\* under Legacy they come out in the order they were Put; and a Pop
\* returns the empty result exactly when every intent of the working set
\* has already been popped.
C15_PopOrder ==
    [][/\ policy' = "LongestTaskFirst" =>
            \A i \in 1..(Len(popLog') - 1) :
                sizes[popLog'[i]] >= sizes[popLog'[i + 1]]
       /\ policy' = "Legacy" => IsPrefix(popLog', workingSet)
       /\ \A w \in Workers :
            (wpc[w] = "pop" /\ wpc'[w] # "pop") =>
                /\ (wIntent'[w] = 0) <=> (Len(popLog) = Len(workingSet))
                /\ wIntent'[w] = 0 => (wpc'[w] = "send" /\ popLog' = popLog)
                /\ wIntent'[w] # 0 =>
                      /\ popLog' = Append(popLog, wIntent'[w])
                      /\ wIntent'[w] \notin Range(popLog)]_vars

\* two intents of different sizes, discovered smallest first, both popped
\* largest first, and a Pop after them came back empty
C15_Witness ==
    /\ policy = "LongestTaskFirst"
    /\ Len(workingSet) = 2 /\ sizes[1] < sizes[2]
    /\ popLog = <<2, 1>>
    /\ \E w \in Workers : wpc[w] = "send" /\ wSend[w] = 0

\* ---- C16
\* C16: DumpIntents starts exactly MaxInt(MaxProcs, 1) workers, a worker
\* that reports sends nil after an empty Pop or the error of its failed
\* copy, and every started worker can still hand over its one result: none
\* is left sending on resultChan when DumpIntents has returned and will
\* receive no more.
C16_EveryWorkerReportsOnce ==
    /\ spawned <= MaxInt(maxProcs, 1)
    /\ diPc \in {"wait", "returned"} => spawned = MaxInt(maxProcs, 1)
    /\ \A w \in Workers : wpc[w] # "idle" <=> w <= spawned
    /\ \A w \in Workers :
          wpc[w] = "send" =>
              \/ wSend[w] = 0 /\ queue = <<>>
              \/ wSend[w] # 0 /\ copyResult[wSend[w]] = "err"
    /\ \A w \in Workers : wpc[w] = "send" => diPc # "returned"

\* ---- C20
\* C20: under fair scheduling every worker DumpIntents started eventually
\* terminates, also in the runs in which a worker fails.
C20_EveryWorkerTerminates ==
    \A w \in Workers : (wpc[w] # "idle") ~> (wpc[w] = "done")

\* ---- C17
\* C17: in a DumpIntent call the data file is opened before any document
\* is read or written and stays open while dumpIterToWriter runs, and once
\* the open succeeded it has been closed, once, when DumpIntent has
\* returned, whatever the return statement it left by.
C17_FileOpenedBeforeAndClosedAfter ==
    /\ (cursorKind # "none" \/ countCalls > 0 \/ iterPos > 0
            \/ dest # <<>> \/ wbuf # <<>>) => openCalls = 1
    /\ mpc \notin {"idle", "returned"} => fileOpen
    /\ cpc \in {"query", "count", "copy"} => fileOpen
    /\ cpc = "returned" =>
          /\ ~fileOpen
          /\ closeCalls = openCalls
          /\ exitPath \notin {"session error", "open error"}
                => openCalls = 1

\* a write error on the stdout path after a written document: the file was
\* opened and has been closed
C17_Witness ==
    /\ cpc = "returned" /\ exitPath = "stdout" /\ cRet = "err"
    /\ pRet = "writeErr" /\ progressCount >= 1
    /\ openCalls = 1 /\ closeCalls = 1 /\ ~fileOpen

\* ---- C19
\* C19: with Repair enabled a DumpIntent call counts no documents before
\* the copy and copies through the Repair cursor, whatever the other
\* options are.
C19_RepairNeverCounts ==
    repairOpt => (countCalls = 0 /\ cursorKind \in {"none", "repair"})

\* ---- C18
\* a name the options exclude, in the claim's words: it equals an excluded
\* name or starts with an excluded prefix
StartsWith(c, p) == Len(p) <= Len(c) /\ \A i \in 1..Len(p) : c[i] = p[i]

Excluded(c) ==
    \/ c \in Range(excludedCollections)
    \/ \E p \in Range(excludedCollectionPrefixes) : StartsWith(c, p)

NotExcluded(c) == ~Excluded(c)

\* C18: the intents created are, in order, the enumerated collections
\* reached so far that no excluded name equals and no excluded prefix
\* starts, and no others; and when creation has returned without error all
\* collections were reached, so the number of intents is the number of
\* enumerated collections minus the excluded ones.
C18_IntentsAreTheNotExcluded ==
    /\ created = SelectSeq(SubSeq(cols, 1, colIdx), NotExcluded)
    /\ (kpc = "returned" /\ kRet = "nil") =>
          /\ colIdx = Len(cols)
          /\ Len(created) = Len(cols)
                - Cardinality({i \in 1..Len(cols) : Excluded(cols[i])})

\* system.js and bar with the excluded prefix "system.": an intent for bar
\* only
C18_Witness ==
    /\ kpc = "returned" /\ kRet = "nil"
    /\ cols = <<SystemJs, Bar>>
    /\ excludedCollections = <<>>
    /\ excludedCollectionPrefixes = <<SystemDot>>
    /\ created = <<Bar>>

\* ---- C21
\* C21: when DumpIntents has returned success, every intent of the working
\* set was popped, its copy returned success and Finish was called on it
\* exactly once, by the worker that popped it; and in every run Finish is
\* called only on intents that were popped and whose copy succeeded, by
\* the worker that popped them, never twice.
C21_FinishOnlyAfterSuccessfulCopy ==
    /\ \A i \in Range(workingSet) :
          /\ Count(finishLog, i) <= 1
          /\ Count(finishLog, i) = 1 =>
                /\ Count(popLog, i) = 1
                /\ copyResult[i] = "ok"
                /\ finishedBy[i] # 0 /\ finishedBy[i] = poppedBy[i]
          /\ copyResult[i] = "err" => Count(finishLog, i) = 0
          /\ finishedBy[i] # 0 <=> Count(finishLog, i) = 1
    /\ Range(finishLog) \subseteq Range(workingSet)
    /\ (diPc = "returned" /\ diErr = 0) =>
          \A i \in Range(workingSet) :
              /\ Count(popLog, i) = 1
              /\ copyResult[i] = "ok"
              /\ Count(finishLog, i) = 1

\* two intents popped by different workers, both finished by the worker
\* that popped them, and DumpIntents returned success
C21_Witness ==
    /\ diPc = "returned" /\ diErr = 0
    /\ Len(workingSet) = 2 /\ Len(finishLog) = 2
    /\ poppedBy[1] # poppedBy[2]
    /\ finishedBy = poppedBy

\* ---- C22
\* C22: when the read of the oldest oplog entry failed in an overflow
\* check, Dump fails with "unable to check oplog for overflow"; "oplog
\* overflow" is returned only when the oldest entry was read and its
\* timestamp is greater than the captured start.
C22_ReadFailureIsNotOverflow ==
    /\ (dpc = "failed" /\ oldestRead = "error")
          => dRet = "unable to check oplog for overflow"
    /\ dRet = "oplog overflow"
          => (oldestRead = "entry" /\ oplog # <<>> /\ Head(oplog) > oplogStart)

\* ---- C23
\* the steps that copy metadata or collections
CopySteps ==
    {"DumpMetadata", "DumpIntent", "DumpIntents", "DumpOplogAfterTimestamp"}

C24_ReaderTerminates ==
    (mpc = "returned") ~> (rpc = "exit")

====
